---- MODULE Spec2Model ----
(***************************************************************************)
(* Model of services.py of the nibe uplink integration:                    *)
(*   - async_track_delta_time: a timer that re-invokes a callback a fixed  *)
(*     delay after each completion, until its remover is called;           *)
(*   - the service handlers set_smarthome_mode, set_parameter,             *)
(*     get_parameter and set_thermostat and the lookup _find_uplink.       *)
(***************************************************************************)
EXTENDS Integers, Sequences, FiniteSets, TLC

\* ---------------------------------------------------------------- bounds
\* largest delay (in clock ticks) a timer is started with
MaxDelta == 2
\* largest number of ticks a due delayed call or a created task may be late
MaxLate == 1
\* largest number of ticks one execution of the callback takes
MaxExec == 2
\* number of distinct delayed-call handles
MaxCalls == 2
\* largest number of tasks of fun that may exist at once
MaxTasks == 2
\* largest number of registered config entries
MaxEntries == 2
\* largest system identifier
MaxSystem == 2

CallIds == 1..MaxCalls
Outcomes == {"ok", "raise"}
Systems == 1..MaxSystem
Handlers == {"set_smarthome_mode", "set_parameter", "get_parameter", "set_thermostat"}

VARIABLES
    \* ---- async_track_delta_time: closure state and event loop
    delta,          \* the delay the timer was created with
    started,        \* async_track_delta_time has returned its remover
    remove,         \* closure variable remove: a delayed call's cancel function, or skip
    skipped,        \* closure variable skipped
    pending,        \* delayed calls of fun scheduled in the loop: records [id, wait]
    nCreated,       \* tasks of fun created by a fired delayed call, not yet begun
    nRunning,       \* tasks of fun awaiting callable()
    taskResult,     \* how the last finished task of fun ended, as its invoker sees it
    \* ---- observations of the timer
    lastOutcome,    \* how the last finished callable() ended
    cancelPhase,    \* phase of the timer at the most recent call of remover
    startedAfter,   \* a callback invocation began after the most recent remover call
    scheduledAfter, \* a delayed call was scheduled after the most recent remover call
    invoked,        \* number of callback invocations so far, counted up to 2
    sinceDone,      \* ticks since the timer was started or the callback last completed
    sinceStart,     \* ticks since the callback was last invoked
    execTime,       \* ticks the current (or last) callback execution has taken
    gapDone,        \* sinceDone at the last callback invocation
    gapStart,       \* sinceStart at the last callback invocation
    prevExec,       \* execution time of the invocation preceding the last one
    \* ---- service handlers
    entries,        \* hass.data[DATA_NIBE_ENTRIES], in dict order: records [systems, uplink]
    hpc,            \* position of the handler invocation
    call,           \* the service call being handled: [handler, system]
    requests,       \* backend requests issued by this invocation
    reqUplink,      \* uplink the request was sent to
    reqSystem,      \* system identifier passed in the request
    reqOp,          \* backend operation requested
    notifications,  \* persistent notifications created by this invocation
    error           \* error the invocation ended with

timerVars == <<delta, started, remove, skipped, pending, nCreated, nRunning, taskResult,
               lastOutcome, cancelPhase, startedAfter, scheduledAfter, invoked,
               sinceDone, sinceStart, execTime, gapDone, gapStart, prevExec>>
svcVars == <<entries, hpc, call, requests, reqUplink, reqSystem, reqOp, notifications, error>>
vars == <<timerVars, svcVars>>

\* ------------------------------------------------- async_track_delta_time
NoHandle == [kind |-> "none", id |-> 0]
SkipHandle == [kind |-> "skip", id |-> 0]
CallHandle(i) == [kind |-> "call", id |-> i]

Max(a, b) == IF a >= b THEN a ELSE b

PendingIds == {c.id : c \in pending}
UsedIds == PendingIds \cup (IF remove.kind = "call" THEN {remove.id} ELSE {})
FreeIds == CallIds \ UsedIds
FreshId == CHOOSE i \in FreeIds : \A j \in FreeIds : i <= j

\* async_call_later(hass, d, fun): one more delayed call, due in d ticks
async_call_later(p, i, d) == p \cup {[id |-> i, wait |-> d]}

\* a remover that cancels nothing
CancelNothing(p, i) == p
\* the cancel function async_call_later returned for call i; no effect once i has fired
CancelCall(p, i) == {c \in p : c.id # i}

\* a timer that stays armed after firing, as async_track_time_interval does
FireRepeating(p, c) == (p \ {c}) \cup {[id |-> c.id, wait |-> delta]}
\* a delayed call fires once
FireCall(p, c) == p \ {c}

\* fun rescheduling without regard to skipped
RescheduleAlways(outcome, skp) == TRUE
\* fun rescheduling after the await instead of in a finally clause
RescheduleOnSuccess(outcome, skp) == outcome = "ok" /\ ~skp
\* finally: if not skipped
ShouldReschedule(outcome, skp) == ~skp

\* a fixed-rate timer: the delay counted from the start of the execution
RescheduleFixedRate(d, exec) == Max(d - exec, 0)
\* the delay fun reschedules itself with
RescheduleDelay(d, exec) == d

\* fun catching the callback's exception
Swallow(outcome) == "returned"
\* try/finally without except: the callback's exception leaves fun
Propagate(outcome) == IF outcome = "raise" THEN "raised" ELSE "returned"

Phase ==
    IF ~started THEN "idle"
    ELSE IF nRunning > 0 THEN "running"
    ELSE IF nCreated > 0 THEN "fired"
    ELSE IF pending # {} THEN "waiting"
    ELSE "cancelled"

TimerInit ==
    /\ delta \in 0..MaxDelta
    /\ started = FALSE
    /\ remove = NoHandle
    /\ skipped = FALSE
    /\ pending = {}
    /\ nCreated = 0
    /\ nRunning = 0
    /\ taskResult = "none"
    /\ lastOutcome = "none"
    /\ cancelPhase = "none"
    /\ startedAfter = FALSE
    /\ scheduledAfter = FALSE
    /\ invoked = 0
    /\ sinceDone = 0
    /\ sinceStart = 0
    /\ execTime = 0
    /\ gapDone = 0
    /\ gapStart = 0
    /\ prevExec = 0

\* async_track_delta_time(hass, delta, callable)
Start ==
    /\ ~started
    /\ started' = TRUE
    /\ skipped' = FALSE
    /\ pending' = async_call_later(pending, FreshId, delta)
    /\ remove' = CallHandle(FreshId)
    /\ UNCHANGED <<delta, nCreated, nRunning, taskResult, lastOutcome, cancelPhase,
                   startedAfter, scheduledAfter, invoked, sinceDone, sinceStart,
                   execTime, gapDone, gapStart, prevExec>>

\* the clock advances by one tick while the timer has a delayed call or a task
Tick ==
    /\ pending # {} \/ nCreated > 0 \/ nRunning > 0
    /\ IF nRunning > 0 THEN execTime < MaxExec ELSE sinceDone < delta + MaxLate
    /\ pending' = {[id |-> c.id, wait |-> Max(c.wait - 1, 0)] : c \in pending}
    /\ sinceDone' = sinceDone + 1
    /\ sinceStart' = sinceStart + 1
    /\ execTime' = IF nRunning > 0 THEN execTime + 1 ELSE execTime
    /\ UNCHANGED <<delta, started, remove, skipped, nCreated, nRunning, taskResult,
                   lastOutcome, cancelPhase, startedAfter, scheduledAfter, invoked,
                   gapDone, gapStart, prevExec>>

\* a due delayed call fires: the loop creates a task of the coroutine fun(now)
Fire(c) ==
    /\ c \in pending
    /\ c.wait = 0
    /\ nCreated + nRunning < MaxTasks
    /\ pending' = FireCall(pending, c)
    /\ nCreated' = nCreated + 1
    /\ UNCHANGED <<delta, started, remove, skipped, nRunning, taskResult, lastOutcome,
                   cancelPhase, startedAfter, scheduledAfter, invoked, sinceDone,
                   sinceStart, execTime, gapDone, gapStart, prevExec>>

\* fun(now) up to its await: remove = skip, then callable() is invoked
FunStart ==
    /\ nCreated > 0
    /\ nCreated' = nCreated - 1
    /\ nRunning' = nRunning + 1
    /\ remove' = SkipHandle
    /\ startedAfter' = (startedAfter \/ cancelPhase # "none")
    /\ invoked' = (IF invoked < 2 THEN invoked + 1 ELSE invoked)
    /\ gapDone' = sinceDone
    /\ gapStart' = sinceStart
    /\ prevExec' = execTime
    /\ sinceStart' = 0
    /\ execTime' = 0
    /\ UNCHANGED <<delta, started, skipped, pending, taskResult, lastOutcome,
                   cancelPhase, scheduledAfter, sinceDone>>

\* callable() returns or raises; fun runs its finally clause and ends
Complete(outcome) ==
    /\ nRunning > 0
    /\ nRunning' = nRunning - 1
    /\ lastOutcome' = outcome
    /\ taskResult' = Propagate(outcome)
    /\ sinceDone' = 0
    /\ IF ShouldReschedule(outcome, skipped)
       THEN /\ FreeIds # {}
            /\ pending' = async_call_later(pending, FreshId,
                                           RescheduleDelay(delta, execTime))
            /\ remove' = CallHandle(FreshId)
            /\ scheduledAfter' = (scheduledAfter \/ cancelPhase # "none")
       ELSE UNCHANGED <<pending, remove, scheduledAfter>>
    /\ UNCHANGED <<delta, started, skipped, nCreated, cancelPhase, startedAfter,
                   invoked, sinceStart, execTime, gapDone, gapStart, prevExec>>

\* remover(): calls whatever remove currently holds
Remover ==
    /\ started
    /\ IF remove.kind = "call"
       THEN /\ pending' = CancelCall(pending, remove.id)
            /\ UNCHANGED skipped
       ELSE /\ skipped' = TRUE
            /\ UNCHANGED pending
    /\ cancelPhase' = Phase
    /\ startedAfter' = FALSE
    /\ scheduledAfter' = FALSE
    /\ UNCHANGED <<delta, started, remove, nCreated, nRunning, taskResult, lastOutcome,
                   invoked, sinceDone, sinceStart, execTime, gapDone, gapStart, prevExec>>

\* -------------------------------------------------------- service handlers
NoCall == [handler |-> "none", system |-> 0]

SvcIdle ==
    /\ hpc = "idle"
    /\ call = NoCall
    /\ requests = 0
    /\ reqUplink = 0
    /\ reqSystem = 0
    /\ reqOp = "none"
    /\ notifications = 0
    /\ error = "none"

\* the registries hass.data[DATA_NIBE_ENTRIES] can hold: every entry has its own uplink
SystemSets == SUBSET Systems
Registries ==
    UNION {[1..n -> SystemSets] : n \in 0..MaxEntries}
MkEntries(r) == [i \in DOMAIN r |-> [systems |-> r[i], uplink |-> i]]

RECURSIVE ScanFrom(_, _, _)
\* for data in entries.values(): if system in data.systems: return data.uplink
\* else: raise Exception (0 stands for the raise)
ScanFrom(es, system, i) ==
    IF i > Len(es) THEN 0
    ELSE IF system \in es[i].systems THEN es[i].uplink
    ELSE ScanFrom(es, system, i + 1)

RECURSIVE ScanBack(_, _, _)
ScanBack(es, system, i) ==
    IF i < 1 THEN 0
    ELSE IF system \in es[i].systems THEN es[i].uplink
    ELSE ScanBack(es, system, i - 1)

\* a lookup that takes the first registered connection whatever its systems
FindUplinkAny(es, system) == IF Len(es) > 0 THEN es[1].uplink ELSE 0
\* a lookup that keeps scanning and returns the last match
FindUplinkLast(es, system) == ScanBack(es, system, Len(es))
\* _find_uplink(system)
find_uplink(es, system) == ScanFrom(es, system, 1)

\* the backend operation each handler awaits
BackendOp(h) ==
    CASE h = "set_smarthome_mode" -> "put_smarthome_mode"
      [] h = "set_parameter" -> "put_parameter"
      [] h = "get_parameter" -> "get_parameter"
      [] h = "set_thermostat" -> "post_smarthome_thermostats"

\* every handler publishing the backend's answer
NotifiesAlways(h) == TRUE
\* only get_parameter calls persistent_notification.async_create after its await
Notifies(h) == h = "get_parameter"

\* the part every handler starts with: uplink = _find_uplink(call.data["system"]),
\* then the request to that uplink with call.data["system"]
Handle(h, system) ==
    /\ hpc \in {"idle", "done", "failed"}
    /\ call' = [handler |-> h, system |-> system]
    /\ notifications' = 0
    /\ LET uplink == find_uplink(entries, system)
       IN IF uplink = 0
          THEN /\ hpc' = "failed"
               /\ error' = "resolve"
               /\ requests' = 0
               /\ reqUplink' = 0
               /\ reqSystem' = 0
               /\ reqOp' = "none"
          ELSE /\ hpc' = "awaiting"
               /\ error' = "none"
               /\ requests' = 1
               /\ reqUplink' = uplink
               /\ reqSystem' = system
               /\ reqOp' = BackendOp(h)
    /\ UNCHANGED entries

set_smarthome_mode(system) == Handle("set_smarthome_mode", system)
set_parameter(system) == Handle("set_parameter", system)
get_parameter(system) == Handle("get_parameter", system)
set_thermostat(system) == Handle("set_thermostat", system)

\* the awaited backend call returns: the handler runs to its end
BackendReturn ==
    /\ hpc = "awaiting"
    /\ hpc' = "done"
    /\ notifications' = (IF Notifies(call.handler) THEN notifications + 1 ELSE notifications)
    /\ UNCHANGED <<entries, call, requests, reqUplink, reqSystem, reqOp, error>>

\* the awaited backend call raises: the exception leaves the handler
BackendFail ==
    /\ hpc = "awaiting"
    /\ hpc' = "failed"
    /\ error' = "backend"
    /\ UNCHANGED <<entries, call, requests, reqUplink, reqSystem, reqOp, notifications>>

SvcInit ==
    /\ TimerInit
    /\ delta = 0
    /\ entries \in {MkEntries(r) : r \in Registries}
    /\ SvcIdle

SvcNext ==
    \/ (\E s \in Systems : set_smarthome_mode(s)) /\ UNCHANGED timerVars
    \/ (\E s \in Systems : set_parameter(s)) /\ UNCHANGED timerVars
    \/ (\E s \in Systems : get_parameter(s)) /\ UNCHANGED timerVars
    \/ (\E s \in Systems : set_thermostat(s)) /\ UNCHANGED timerVars
    \/ BackendReturn /\ UNCHANGED timerVars
    \/ BackendFail /\ UNCHANGED timerVars

SvcSpec == SvcInit /\ [][SvcNext]_vars

Init == TimerInit /\ entries = <<>> /\ SvcIdle

Next ==
    \/ Start /\ UNCHANGED svcVars
    \/ Tick /\ UNCHANGED svcVars
    \/ (\E c \in pending : Fire(c)) /\ UNCHANGED svcVars
    \/ FunStart /\ UNCHANGED svcVars
    \/ (\E o \in Outcomes : Complete(o)) /\ UNCHANGED svcVars
    \/ Remover /\ UNCHANGED svcVars

Spec == Init /\ [][Next]_vars

\* ------------------------------------------------------------- properties
Matching(es, system) == {i \in 1..Len(es) : system \in es[i].systems}

\* C1: when remover is called while the timer is waiting (a delayed call of fun is
\* pending and has not fired), the pending call is gone, the callback is not invoked
\* again and no delayed call is scheduled any more
C1_CancelWhileWaiting ==
    cancelPhase = "waiting" =>
        /\ pending = {}
        /\ nCreated = 0
        /\ nRunning = 0
        /\ ~startedAfter
        /\ ~scheduledAfter

C1_Witness ==
    /\ cancelPhase = "waiting"
    /\ invoked = 2
    /\ delta > 0
    /\ sinceDone < delta

\* C2: when remover is called while an execution of the callback is in flight, that
\* execution stays in flight until it completes, and its completion (return or
\* raise) schedules nothing: no delayed call is pending and no invocation follows
C2_CancelWhileRunning ==
    cancelPhase = "running" =>
        /\ skipped
        /\ pending = {}
        /\ nCreated = 0
        /\ ~startedAfter
        /\ ~scheduledAfter
        /\ Phase \in {"running", "cancelled"}

C2_Witness ==
    /\ cancelPhase = "running"
    /\ Phase = "cancelled"
    /\ lastOutcome = "raise"
    /\ taskResult = "raised"

\* C3: every completion of a callback execution of a timer whose remover was never
\* called schedules exactly one new delayed call with the delay delta, after a
\* return and after a raise, and a raise leaves fun as an exception
C3_CompletionReschedules ==
    [][(nRunning' < nRunning /\ cancelPhase = "none") =>
          /\ Cardinality(pending') = Cardinality(pending) + 1
          /\ \E c \in pending' \ pending : c.wait = delta
          /\ (lastOutcome' = "raise" => taskResult' = "raised")
          /\ (lastOutcome' = "ok" => taskResult' = "returned")]_vars

C3_Witness ==
    /\ cancelPhase = "none"
    /\ lastOutcome = "raise"
    /\ taskResult = "raised"
    /\ Phase = "waiting"
    /\ \E c \in pending : c.wait = delta
    /\ delta > 0

\* C4: at most one execution of the callback is in flight, at most one delayed call
\* is pending, and no delayed call is pending while a task of fun exists
C4_Sequential ==
    /\ nCreated + nRunning <= 1
    /\ Cardinality(pending) <= 1
    /\ ~(pending # {} /\ nCreated + nRunning > 0)

C4_Witness ==
    /\ nRunning = 1
    /\ invoked = 2
    /\ cancelPhase = "fired"

\* C5: the first invocation of the callback starts at least delta after the timer
\* was started, and every later invocation starts at least delta after the
\* completion of the one before it, hence at least delta plus that execution's
\* time after its start; starting the timer invokes nothing
C5_Spacing ==
    /\ (invoked >= 1 => gapDone >= delta)
    /\ (invoked >= 2 => gapStart >= delta + prevExec)
    /\ (invoked = 0 /\ sinceDone < delta => nCreated = 0 /\ nRunning = 0)

C5_Witness ==
    /\ invoked = 2
    /\ delta > 0
    /\ prevExec > 0
    /\ gapStart = delta + prevExec

\* C6: if remover is never called, delayed calls fire and executions terminate,
\* then a started timer invokes the callback again and again, also after a raise
C6_InvokedForever ==
    (<>started /\ [](cancelPhase = "none")) => []<>(nRunning > 0)

C6_Witness ==
    /\ cancelPhase = "none"
    /\ lastOutcome = "raise"
    /\ invoked = 2
    /\ nRunning = 1

\* C7: when a registered connection knows the system of the call, the handler's
\* request goes to a connection that knows it, with that system identifier and the
\* handler's operation; when none knows it, the call fails in the lookup
C7_RequestRouted ==
    call # NoCall =>
        IF Matching(entries, call.system) # {}
        THEN /\ requests = 1
             /\ \E i \in Matching(entries, call.system) : entries[i].uplink = reqUplink
             /\ reqSystem = call.system
             /\ reqOp = BackendOp(call.handler)
             /\ error # "resolve"
        ELSE /\ hpc = "failed"
             /\ error = "resolve"

C7_Witness ==
    /\ call.handler = "set_thermostat"
    /\ call.system = 2
    /\ Len(entries) = 2
    /\ Matching(entries, 2) = {2}
    /\ reqUplink = 2
    /\ hpc = "done"

\* C8 as claimed: a lookup succeeds only when exactly one registered connection
\* knows the system
C8_Original ==
    (call # NoCall /\ error # "resolve") =>
        Cardinality(Matching(entries, call.system)) = 1

\* C8: a lookup succeeds exactly when at least one registered connection knows the
\* system, and then it is the first such connection in the registry's order; it
\* fails only when none knows it
C8_FirstMatch ==
    call # NoCall =>
        /\ (error = "resolve") = (Matching(entries, call.system) = {})
        /\ (error # "resolve" =>
               \E i \in Matching(entries, call.system) :
                   /\ entries[i].uplink = reqUplink
                   /\ \A j \in Matching(entries, call.system) : i <= j)

C8_Witness ==
    /\ call # NoCall
    /\ Cardinality(Matching(entries, call.system)) = 2
    /\ reqUplink = 1
    /\ hpc = "awaiting"

\* C9: an invocation issues at most one request; a failed lookup issues none and
\* notifies nothing; a failed backend call ends the invocation with that error and
\* without a notification; a notification is created once, by get_parameter only,
\* and only when its request has returned
C9_OneRequest ==
    /\ requests <= 1
    /\ notifications <= 1
    /\ (error = "resolve" => requests = 0 /\ notifications = 0 /\ hpc = "failed")
    /\ (error = "backend" => requests = 1 /\ notifications = 0 /\ hpc = "failed")
    /\ (notifications = 1 =>
            call.handler = "get_parameter" /\ hpc = "done" /\ requests = 1)
    /\ (hpc = "done" /\ call.handler = "get_parameter" => notifications = 1)
    /\ (hpc = "awaiting" => notifications = 0)

C9_Witness ==
    /\ call.handler = "get_parameter"
    /\ hpc = "done"
    /\ notifications = 1
    /\ requests = 1

\* C10: once remover has returned, no invocation of the callback starts and no
\* delayed call is scheduled, whatever the timer was doing when it was called
C10_CancelAlwaysEffective ==
    cancelPhase # "none" => ~startedAfter /\ ~scheduledAfter

\* the loop runs every due delayed call and every created task, callbacks terminate,
\* and the clock advances
FairSpec ==
    /\ Init
    /\ [][Next]_vars
    /\ WF_vars(Tick /\ UNCHANGED svcVars)
    /\ WF_vars((\E c \in pending : Fire(c)) /\ UNCHANGED svcVars)
    /\ WF_vars(FunStart /\ UNCHANGED svcVars)
    /\ WF_vars((\E o \in Outcomes : Complete(o)) /\ UNCHANGED svcVars)
====
